---- MODULE Spec2Model ----
(***************************************************************************)
(* Themewalker: the selection state machine of src/src/app.rs (App,        *)
(* handle_key, move_up, move_down) and the configuration patcher of        *)
(* src/src/config.rs (parse_current_theme, apply_theme_to_content).        *)
(*                                                                         *)
(* Text.  A Rust string is a sequence of characters.  The characters of    *)
(* the model are the ones the code tells apart: the opening bracket, the   *)
(* run "Theme]", the run "Current=", a blank, the line feed, and two       *)
(* ordinary characters.  A run is one indivisible character of the model,  *)
(* so "[Theme]" is <<LB, TH>> and "Current=x" is <<KEY, "x">>.  There is   *)
(* no carriage return in the alphabet.                                     *)
(*                                                                         *)
(* The cursor is ListState.selected, which app.rs changes only through     *)
(* select(); ui::draw renders the list only when themes is non-empty and   *)
(* is not a step of the model.                                             *)
(*                                                                         *)
(* Option<T> is a sequence of length at most one: None is <<>>, Some(x) is *)
(* <<x>>.  Indices are 0-based as in the code; themes[i + 1] is the entry  *)
(* the code calls themes[i].                                               *)
(***************************************************************************)
EXTENDS Naturals, Sequences, FiniteSets

VARIABLES
    themes,         \* App.themes: the theme names, in list order
    selected,       \* App.list_state.selected(): Option<usize>
    mode,           \* App.mode
    current_theme,  \* App.current_theme: Option<String>
    key,            \* the KeyCode of the last handle_key call, None before any
    ret,            \* what the last handle_key call returned: Option<ExitAction>
    panicked,       \* TRUE once an expect() of handle_key has panicked
    enter_seen,     \* history: some handle_key call so far was given Enter
    prev_mode,      \* history: App.mode before the last handle_key call
    prev_selected,  \* history: the cursor before the last handle_key call
    enter_before,   \* history: an Enter was handled before the last handle_key call
    streak,         \* history: the latest unbroken run of move_up or of move_down calls
    armed,          \* history: the entry highlighted at the last Enter handled in Browsing
    file,           \* the text stored at SddmConfig.path
    raw_content,    \* SddmConfig.raw_content: the text that was loaded
    cfg_current,    \* SddmConfig.current_theme = parse_current_theme(raw_content)
    phase,          \* "loaded": load returned; "written": write_theme returned
    runs,           \* the write_theme calls made on the file so far
    written,        \* history: the names given to the last two of them, oldest first
    root,           \* the theme root on disk: what exists() and read_dir give
    scan,           \* what discover_themes returned, NotScanned before the call
    disk,           \* /etc/sddm.conf and /etc/sddm.conf.d as they are on disk
    pc,             \* where main is: "start", then the step it has completed
    cfg_path,       \* SddmConfig.path of main's config, None before it is built
    resolved,       \* history: what resolve_config_path returned, None before
    load_failed,    \* history: SddmConfig::load returned Err
    terminal,       \* "cooked", or "raw" while the TUI owns the terminal
    loop_result,    \* what run_event_loop returned, NotReturned before
    write_call,     \* history: the write_theme call made: Some([name, content])
    attempts,       \* history: the writes attempted, in order
    exit_status,    \* the exit status of the process, None while it runs
    disk0           \* history: the disk when the program started

vars == <<themes, selected, mode, current_theme, key, ret, panicked, enter_seen,
          prev_mode, prev_selected, enter_before, streak, armed,
          file, raw_content, cfg_current, phase, runs, written,
          root, scan, disk, pc, cfg_path, resolved, load_failed, terminal,
          loop_result, write_call, attempts, exit_status, disk0>>

appVars == <<themes, selected, mode, current_theme, key, ret, panicked,
             enter_seen, prev_mode, prev_selected, enter_before, streak,
             armed>>

cfgVars == <<file, raw_content, cfg_current, phase, runs, written>>

scanVars == <<root, scan>>

mainVars == <<disk, pc, cfg_path, resolved, load_failed, terminal, loop_result,
             write_call, attempts, exit_status, disk0>>

\* The variables of the disk and of main, which the selection model and the
\* patcher leave alone.
envVars == <<scanVars, mainVars>>

None == <<>>

Some(x) == <<x>>

\* Result values: Ok(v) and Err(e).
Ok(v) == <<"Ok", v>>

Err(e) == <<"Err", e>>

IsOk(r) == r[1] = "Ok"

Last(s) == s[Len(s)]

----------------------------------------------------------------------------
(* Characters and strings                                                  *)

LB == "["

TH == "Theme]"

KEY == "Current="

SP == " "

LF == "\n"

\* "[Theme]", compared with the trimmed line
ThemeHeader == <<LB, TH>>

\* char::is_whitespace over the alphabet
IsWhitespace(c) == c \in {SP, LF}

RECURSIVE TrimStart(_)
TrimStart(s) ==
    IF s # <<>> /\ IsWhitespace(Head(s)) THEN TrimStart(Tail(s)) ELSE s

RECURSIVE TrimEnd(_)
TrimEnd(s) ==
    IF s # <<>> /\ IsWhitespace(s[Len(s)])
    THEN TrimEnd(SubSeq(s, 1, Len(s) - 1))
    ELSE s

\* str::trim
Trim(s) == TrimEnd(TrimStart(s))

\* t.starts_with('[')
StartsWithBracket(t) == t # <<>> /\ Head(t) = LB

\* t.starts_with("Current=")
StartsWithKey(t) == t # <<>> /\ Head(t) = KEY

\* t.strip_prefix("Current="): Some(rest) or None
StripKeyPrefix(t) == IF StartsWithKey(t) THEN Some(Tail(t)) ELSE None

\* The pieces of s between line feeds, the piece after the last one included.
RECURSIVE SplitLF(_, _)
SplitLF(s, cur) ==
    IF s = <<>> THEN <<cur>>
    ELSE IF Head(s) = LF THEN <<cur>> \o SplitLF(Tail(s), <<>>)
    ELSE SplitLF(Tail(s), Append(cur, Head(s)))

\* str::lines: the lines without their terminators; a final line feed ends
\* the last line and starts no empty one.
Lines(content) ==
    LET pieces == SplitLF(content, <<>>)
    IN  IF pieces[Len(pieces)] = <<>>
        THEN SubSeq(pieces, 1, Len(pieces) - 1)
        ELSE pieces

----------------------------------------------------------------------------
(* INI parsing (config.rs)                                                 *)

\* parse_current_theme without the section test: any Current= line counts.
RECURSIVE ParseLoop_IgnoresSections(_, _)
ParseLoop_IgnoresSections(lines, in_theme) ==
    IF lines = <<>> THEN None
    ELSE LET t == Trim(Head(lines))
             val == StripKeyPrefix(t)
         IN  IF val # None /\ Trim(val[1]) # <<>>
             THEN Some(Trim(val[1]))
             ELSE ParseLoop_IgnoresSections(Tail(lines), in_theme)

\* The loop of parse_current_theme over the remaining lines.
RECURSIVE ParseLoop(_, _)
\* parse_current_theme whose in_theme flag is never cleared by a later header
RECURSIVE ParseLoop_StickySection(_, _)
ParseLoop_StickySection(lines, in_theme) ==
    IF lines = <<>> THEN None
    ELSE LET t == Trim(Head(lines))
             val == StripKeyPrefix(t)
         IN  IF StartsWithBracket(t)
             THEN ParseLoop_StickySection(Tail(lines), in_theme \/ t = ThemeHeader)
             ELSE IF in_theme /\ val # None /\ Trim(val[1]) # <<>>
             THEN Some(Trim(val[1]))
             ELSE ParseLoop_StickySection(Tail(lines), in_theme)

ParseLoop(lines, in_theme) ==
    IF lines = <<>> THEN None
    ELSE LET t == Trim(Head(lines))
             val == StripKeyPrefix(t)
         IN  IF StartsWithBracket(t)
             THEN ParseLoop(Tail(lines), t = ThemeHeader)
             ELSE IF in_theme /\ val # None /\ Trim(val[1]) # <<>>
             THEN Some(Trim(val[1]))
             ELSE ParseLoop(Tail(lines), in_theme)

parse_current_theme(content) == ParseLoop(Lines(content), FALSE)

\* The loop of has_theme_section over the remaining lines.
RECURSIVE HasThemeLoop(_, _)
HasThemeLoop(lines, in_theme) ==
    IF lines = <<>> THEN FALSE
    ELSE LET t == Trim(Head(lines))
         IN  IF StartsWithBracket(t)
             THEN HasThemeLoop(Tail(lines), t = ThemeHeader)
             ELSE IF in_theme /\ StartsWithKey(t) THEN TRUE
             ELSE HasThemeLoop(Tail(lines), in_theme)

has_theme_section(content) == HasThemeLoop(Lines(content), FALSE)

----------------------------------------------------------------------------
(* INI writing (config.rs)                                                 *)

\* result.push_str(line); result.push('\n')
PushLine(result, line) == result \o line \o <<LF>>

\* format!("Current={}", theme_name)
NewLine(theme_name) == <<KEY>> \o theme_name

\* The loop body that copies the trimmed text t where the code copies line.
ApplyStep_CopiesTrimmed(st, line, new_line) ==
    LET t == Trim(line)
    IN  IF StartsWithBracket(t)
        THEN LET inject == st.in_theme /\ ~st.found_key
                 r1 == IF inject THEN PushLine(st.result, new_line) ELSE st.result
                 it == (t = ThemeHeader)
             IN  [result        |-> PushLine(r1, t),
                  in_theme      |-> it,
                  found_section |-> st.found_section \/ it,
                  found_key     |-> st.found_key \/ inject]
        ELSE IF st.in_theme /\ StartsWithKey(t)
        THEN [st EXCEPT !.result = PushLine(@, new_line), !.found_key = TRUE]
        ELSE [st EXCEPT !.result = PushLine(@, t)]
\* The loop body that injects the key after the closing header, not before.
ApplyStep_InjectsAfterHeader(st, line, new_line) ==
    LET t == Trim(line)
    IN  IF StartsWithBracket(t)
        THEN LET inject == st.in_theme /\ ~st.found_key
                 r1 == PushLine(st.result, line)
                 it == (t = ThemeHeader)
             IN  [result        |-> IF inject THEN PushLine(r1, new_line) ELSE r1,
                  in_theme      |-> it,
                  found_section |-> st.found_section \/ it,
                  found_key     |-> st.found_key \/ inject]
        ELSE IF st.in_theme /\ StartsWithKey(t)
        THEN [st EXCEPT !.result = PushLine(@, new_line), !.found_key = TRUE]
        ELSE [st EXCEPT !.result = PushLine(@, line)]

\* The loop body whose replace arm writes new_line and keeps the old line.
ApplyStep_KeepsOldLine(st, line, new_line) ==
    LET t == Trim(line)
    IN  IF StartsWithBracket(t)
        THEN LET inject == st.in_theme /\ ~st.found_key
                 r1 == IF inject THEN PushLine(st.result, new_line) ELSE st.result
                 it == (t = ThemeHeader)
             IN  [result        |-> PushLine(r1, line),
                  in_theme      |-> it,
                  found_section |-> st.found_section \/ it,
                  found_key     |-> st.found_key \/ inject]
        ELSE IF st.in_theme /\ StartsWithKey(t)
        THEN [st EXCEPT !.result = PushLine(PushLine(@, new_line), line),
                        !.found_key = TRUE]
        ELSE [st EXCEPT !.result = PushLine(@, line)]

\* The loop body whose replace arm leaves a Current= line that holds a value.
ApplyStep_KeepsSetKey(st, line, new_line) ==
    LET t == Trim(line)
    IN  IF StartsWithBracket(t)
        THEN LET inject == st.in_theme /\ ~st.found_key
                 r1 == IF inject THEN PushLine(st.result, new_line) ELSE st.result
                 it == (t = ThemeHeader)
             IN  [result        |-> PushLine(r1, line),
                  in_theme      |-> it,
                  found_section |-> st.found_section \/ it,
                  found_key     |-> st.found_key \/ inject]
        ELSE IF st.in_theme /\ StartsWithKey(t)
        THEN [st EXCEPT !.result = PushLine(@, IF Tail(t) = <<>> THEN new_line
                                                                ELSE line),
                        !.found_key = TRUE]
        ELSE [st EXCEPT !.result = PushLine(@, line)]

\* One iteration of the for loop of apply_theme_to_content; st holds the
\* locals result, in_theme, found_section and found_key.
ApplyStep(st, line, new_line) ==
    LET t == Trim(line)
    IN  IF StartsWithBracket(t)
        THEN LET inject == st.in_theme /\ ~st.found_key
                 r1 == IF inject THEN PushLine(st.result, new_line) ELSE st.result
                 it == (t = ThemeHeader)
             IN  [result        |-> PushLine(r1, line),
                  in_theme      |-> it,
                  found_section |-> st.found_section \/ it,
                  found_key     |-> st.found_key \/ inject]
        ELSE IF st.in_theme /\ StartsWithKey(t)
        THEN [st EXCEPT !.result = PushLine(@, new_line), !.found_key = TRUE]
        ELSE [st EXCEPT !.result = PushLine(@, line)]

RECURSIVE ApplyLoop(_, _, _)
ApplyLoop(lines, st, new_line) ==
    IF lines = <<>> THEN st
    ELSE ApplyLoop(Tail(lines), ApplyStep(st, Head(lines), new_line), new_line)

\* The end-of-file block without the found_key test.
ApplyEof_IgnoresFoundKey(st, new_line) ==
    IF st.in_theme
    THEN [st EXCEPT !.result = PushLine(@, new_line), !.found_key = TRUE]
    ELSE st

\* The end-of-file block: still inside [Theme] with no Current= written.
ApplyEof(st, new_line) ==
    IF st.in_theme /\ ~st.found_key
    THEN [st EXCEPT !.result = PushLine(@, new_line), !.found_key = TRUE]
    ELSE st
\* The append block that pushes "[Theme]\n" without the blank line before it.
ApplyAppend_NoBlankLine(st, new_line) ==
    IF ~st.found_section \/ ~st.found_key
    THEN LET r == IF st.result # <<>> /\ st.result[Len(st.result)] # LF
                  THEN Append(st.result, LF)
                  ELSE st.result
         IN  r \o ThemeHeader \o <<LF>> \o new_line \o <<LF>>
    ELSE st.result

\* The append block with its test inverted: it appends when [Theme] was found.
ApplyAppend_WhenSectionFound(st, new_line) ==
    IF st.found_section
    THEN LET r == IF st.result # <<>> /\ st.result[Len(st.result)] # LF
                  THEN Append(st.result, LF)
                  ELSE st.result
         IN  r \o <<LF>> \o ThemeHeader \o <<LF>> \o new_line \o <<LF>>
    ELSE st.result

\* The append block: no [Theme] section (or no key) was found.
ApplyAppend(st, new_line) ==
    IF ~st.found_section \/ ~st.found_key
    THEN LET r == IF st.result # <<>> /\ st.result[Len(st.result)] # LF
                  THEN Append(st.result, LF)
                  ELSE st.result
         IN  r \o <<LF>> \o ThemeHeader \o <<LF>> \o new_line \o <<LF>>
    ELSE st.result

apply_theme_to_content(content, theme_name) ==
    LET new_line == NewLine(theme_name)
        st0 == [result |-> <<>>, in_theme |-> FALSE,
                found_section |-> FALSE, found_key |-> FALSE]
    IN  ApplyAppend(ApplyEof(ApplyLoop(Lines(content), st0, new_line), new_line),
                    new_line)

----------------------------------------------------------------------------
(* Inputs of the configuration model                                       *)

\* The longest document drawn, in lines.
MaxLines == 3

\* The program runs (load, then write_theme) made on one file.
MaxRuns == 2

\* The lines documents are made of: blank, "[Theme]", " [Theme] ", "[x",
\* "Current=", " Current= y ", "x".  A write adds "Current=<name>" lines.
DocLines ==
    { <<>>, ThemeHeader, <<SP, LB, TH, SP>>, <<LB, "x">>,
      <<KEY>>, <<SP, KEY, SP, "y", SP>>, <<"x">> }

\* The lines ls joined by line feeds, with a final line feed when nl.
RECURSIVE JoinLines(_, _)
JoinLines(ls, nl) ==
    IF ls = <<>> THEN <<>>
    ELSE IF Len(ls) = 1 THEN Head(ls) \o (IF nl THEN <<LF>> ELSE <<>>)
    ELSE Head(ls) \o <<LF>> \o JoinLines(Tail(ls), nl)

Docs ==
    { JoinLines(ls, nl) :
        ls \in UNION { [1..n -> DocLines] : n \in 0..MaxLines }, nl \in BOOLEAN }

\* The theme names written: "x", "y", "", " x" and the two-line "x\n[x".
Values == { <<"x">>, <<"y">>, <<>>, <<SP, "x">>, <<"x", LF, LB, "x">> }

----------------------------------------------------------------------------
(* SddmConfig (config.rs)                                                  *)

\* SddmConfig::load on a readable file at the resolved path: the state load
\* leaves for a file holding doc.
Loaded(doc) ==
    /\ raw_content = doc
    /\ cfg_current = parse_current_theme(doc)

\* The next run of the program loads what the last one wrote.
load ==
    /\ phase = "written"
    /\ runs < MaxRuns
    /\ raw_content' = file
    /\ cfg_current' = parse_current_theme(file)
    /\ phase' = "loaded"
    /\ UNCHANGED <<file, runs, written>>

\* SddmConfig::write_theme whose write_to_path succeeds.
write_theme(theme_name) ==
    /\ phase = "loaded"
    /\ file' = apply_theme_to_content(raw_content, theme_name)
    /\ phase' = "written"
    /\ runs' = runs + 1
    /\ written' = IF written = <<>> THEN <<theme_name>>
                  ELSE <<Last(written), theme_name>>
    /\ UNCHANGED <<raw_content, cfg_current>>

----------------------------------------------------------------------------
(* The configuration files on disk (config.rs)                             *)

\* A path is the sequence of its components below the root directory.
SDDM_CONF == <<"etc", "sddm.conf">>

SDDM_CONF_D == <<"etc", "sddm.conf.d">>

\* conf_d.join(name): a file name is <<stem, extension>>.
Join(dir, name) == Append(dir, name)

ThemeConf == <<"theme", "conf">>

\* The file names drawn for the drop-in directory, in ascending order:
\* "10-sddm.conf", "notes.txt", "theme.conf", "zz.conf".
ConfNames == << <<"10-sddm", "conf">>, <<"notes", "txt">>, ThemeConf, <<"zz", "conf">> >>

\* p.extension().map_or(false, |x| x == "conf") on the path of entry e
HasConfExtension(e) == e.name[2] = "conf"

\* No file at the path.
NoFile == [exists |-> FALSE, readable |-> FALSE, content |-> <<>>]

\* fs::read_to_string: Some(text), or None for any error.
ReadToString(f) == IF f.exists /\ f.readable THEN Some(f.content) ELSE None

\* The file the disk d holds at path.
FileAt(d, path) ==
    IF path = SDDM_CONF THEN d.legacy
    ELSE IF \E i \in 1..Len(d.conf_d.entries) :
                Join(SDDM_CONF_D, d.conf_d.entries[i].name) = path
    THEN d.conf_d.entries[
             CHOOSE i \in 1..Len(d.conf_d.entries) :
                 Join(SDDM_CONF_D, d.conf_d.entries[i].name) = path ].file
    ELSE NoFile

\* The place of a file name in the ascending order of names.
PathRank(name) == CHOOSE i \in 1..Len(ConfNames) : ConfNames[i] = name

RECURSIVE InsertByPath(_, _)
InsertByPath(s, e) ==
    IF s = <<>> THEN <<e>>
    ELSE IF PathRank(e.name) < PathRank(Head(s).name) THEN <<e>> \o s
    ELSE <<Head(s)>> \o InsertByPath(Tail(s), e)

\* candidates.sort()
RECURSIVE SortPaths(_)
SortPaths(s) ==
    IF s = <<>> THEN <<>>
    ELSE InsertByPath(SortPaths(SubSeq(s, 1, Len(s) - 1)), s[Len(s)])

\* The candidates of resolve_config_path: the items read_dir yielded without
\* error whose extension is conf, sorted.
Candidates(entries) ==
    SortPaths(SelectSeq(entries, LAMBDA e : e.ok /\ HasConfExtension(e)))

\* The for loop over the candidates: the first that can be read and has
\* [Theme] with Current=, or None.
RECURSIVE FirstCandidate(_)
FirstCandidate(cands) ==
    IF cands = <<>> THEN None
    ELSE LET c == ReadToString(Head(cands).file)
         IN  IF c # None /\ has_theme_section(c[1])
             THEN Some(Join(SDDM_CONF_D, Head(cands).name))
             ELSE FirstCandidate(Tail(cands))

\* resolve_config_path that tries the drop-in directory before the legacy file
resolve_config_path_DropInFirst(d) ==
    LET c == ReadToString(d.legacy)
        found == IF d.conf_d.listable
                 THEN FirstCandidate(Candidates(d.conf_d.entries))
                 ELSE None
    IN  IF d.conf_d.is_dir /\ found # None THEN found[1]
        ELSE IF d.legacy.exists /\ c # None /\ has_theme_section(c[1])
        THEN SDDM_CONF
        ELSE IF d.conf_d.is_dir THEN Join(SDDM_CONF_D, ThemeConf)
        ELSE SDDM_CONF

\* resolve_config_path that falls back to the legacy file when it exists
resolve_config_path_LegacyFallback(d) ==
    LET c == ReadToString(d.legacy)
        found == IF d.conf_d.listable
                 THEN FirstCandidate(Candidates(d.conf_d.entries))
                 ELSE None
    IN  IF d.legacy.exists /\ c # None /\ has_theme_section(c[1])
        THEN SDDM_CONF
        ELSE IF d.conf_d.is_dir /\ found # None THEN found[1]
        ELSE IF d.conf_d.is_dir /\ ~d.legacy.exists
        THEN Join(SDDM_CONF_D, ThemeConf)
        ELSE SDDM_CONF

\* resolve_config_path() on the disk d.
resolve_config_path(d) ==
    LET c == ReadToString(d.legacy)
        found == IF d.conf_d.listable
                 THEN FirstCandidate(Candidates(d.conf_d.entries))
                 ELSE None
    IN  IF d.legacy.exists /\ c # None /\ has_theme_section(c[1])
        THEN SDDM_CONF
        ELSE IF d.conf_d.is_dir
        THEN IF found # None THEN found[1] ELSE Join(SDDM_CONF_D, ThemeConf)
        ELSE SDDM_CONF

\* SddmConfig::load() on the disk d: Ok(config) or Err.
SddmConfig_load(d) ==
    LET path == resolve_config_path(d)
        f == FileAt(d, path)
    IN  IF f.exists /\ ReadToString(f) = None
        THEN Err("Failed to read SDDM config")
        ELSE LET text == IF f.exists THEN ReadToString(f)[1] ELSE <<>>
             IN  Ok([path |-> path,
                     current_theme |-> parse_current_theme(text),
                     raw_content |-> text])

\* SddmConfig::empty()
SddmConfig_empty ==
    [path |-> SDDM_CONF, current_theme |-> None, raw_content |-> <<>>]

\* main that propagates the error of SddmConfig::load with `?`
main_load_Fatal ==
    /\ pc = "start"
    /\ LET r == SddmConfig_load(disk)
           config == IF IsOk(r) THEN r[2] ELSE SddmConfig_empty
       IN  /\ cfg_path' = Some(config.path)
           /\ cfg_current' = config.current_theme
           /\ raw_content' = config.raw_content
           /\ load_failed' = ~IsOk(r)
           /\ pc' = IF IsOk(r) THEN "loaded" ELSE "exited"
           /\ exit_status' = IF IsOk(r) THEN exit_status ELSE Some(1)
    /\ resolved' = Some(resolve_config_path(disk))
    /\ UNCHANGED <<disk, file, phase, runs, written, terminal, loop_result,
                   write_call, attempts, disk0>>

\* Step 1 of main: the loaded config, or the empty one when load failed.
main_load ==
    /\ pc = "start"
    /\ LET r == SddmConfig_load(disk)
           config == IF IsOk(r) THEN r[2] ELSE SddmConfig_empty
       IN  /\ cfg_path' = Some(config.path)
           /\ cfg_current' = config.current_theme
           /\ raw_content' = config.raw_content
           /\ load_failed' = ~IsOk(r)
    /\ resolved' = Some(resolve_config_path(disk))
    /\ pc' = "loaded"
    /\ UNCHANGED <<disk, file, phase, runs, written, terminal, loop_result,
                   write_call, attempts, exit_status, disk0>>

\* The most entries drawn for the drop-in directory.
MaxFragments == 2

\* File contents: "[Theme]\nCurrent=y\n", "x\n[Theme]\n" and "[x\nCurrent=y\n".
ConfigTexts ==
    { ThemeHeader \o <<LF, KEY, "y", LF>>,
      <<"x", LF>> \o ThemeHeader \o <<LF>>,
      <<LB, "x", LF, KEY, "y", LF>> }

\* The files drawn: readable with each content, and one that cannot be read.
Files ==
    { [exists |-> TRUE, readable |-> TRUE, content |-> t] : t \in ConfigTexts }
        \cup { [exists |-> TRUE, readable |-> FALSE,
                content |-> ThemeHeader \o <<LF, KEY, "y", LF>>] }

\* The items read_dir yields for the drop-in directory; an Err item (ok
\* FALSE) is drawn with one file only.
ConfEntries ==
    { e \in [name : { ConfNames[i] : i \in 1..Len(ConfNames) },
             ok : BOOLEAN, file : Files] :
        ~e.ok => e.file.readable /\ e.file.content = <<LB, "x", LF, KEY, "y", LF>> }

ConfListings ==
    { l \in UNION { [1..n -> ConfEntries] : n \in 0..MaxFragments } :
        \A i \in 1..Len(l) : \A j \in 1..Len(l) : i # j => l[i].name # l[j].name }

\* The drop-in directory: absent, a directory read_dir cannot list, or a
\* directory with a listing.
ConfDirs ==
    { [is_dir |-> FALSE, listable |-> FALSE, entries |-> <<>>],
      [is_dir |-> TRUE, listable |-> FALSE, entries |-> <<>>] }
        \cup { [is_dir |-> TRUE, listable |-> TRUE, entries |-> l] : l \in ConfListings }

Disks == [legacy : Files \cup {NoFile}, conf_d : ConfDirs]

\* A disk without configuration files.
EmptyDisk ==
    [legacy |-> NoFile,
     conf_d |-> [is_dir |-> FALSE, listable |-> FALSE, entries |-> <<>>]]

----------------------------------------------------------------------------
(* Inputs of the selection model                                           *)

\* The longest theme list drawn.
MaxThemes == 3

\* The theme directories that may be installed, in ascending name order.
ThemeUniverse == <<"aerial", "breeze", "maya", "sugar-candy">>

\* The names of ThemeUniverse at the positions of S, in ascending order.
RECURSIVE PickThemes(_, _)
PickThemes(S, i) ==
    IF i > Len(ThemeUniverse) THEN <<>>
    ELSE (IF i \in S THEN <<ThemeUniverse[i]>> ELSE <<>>) \o PickThemes(S, i + 1)

\* What discover_themes can return: sorted lists of distinct names.
ThemeLists ==
    { PickThemes(S, 1) :
        S \in { T \in SUBSET (1..Len(ThemeUniverse)) : Cardinality(T) <= MaxThemes } }

\* What SddmConfig.current_theme can hold when App::new is called.
CurrentThemes ==
    {None} \cup { Some(ThemeUniverse[i]) : i \in 1..Len(ThemeUniverse) }

KeyCodes ==
    { "Up", "Down", "Enter", "Esc", "Tab",
      "k", "j", "q", "y", "Y", "n", "N", "x" }

Quit == <<"Quit">>

ApplyTheme(name) == <<"ApplyTheme", name>>

----------------------------------------------------------------------------
(* Theme discovery (theme.rs)                                              *)

DESC == "Description="

AUTH == "Author="

\* t.strip_prefix(prefix): Some(rest) or None
StripPrefix(t, prefix) ==
    IF t # <<>> /\ Head(t) = prefix THEN Some(Tail(t)) ELSE None

\* The loop of parse_metadata over the remaining lines.
RECURSIVE MetadataLoop(_, _, _)
MetadataLoop(lines, description, author) ==
    IF lines = <<>> THEN <<description, author>>
    ELSE LET t == Trim(Head(lines))
             d == IF description = None THEN StripPrefix(t, DESC) ELSE description
             a == IF author = None THEN StripPrefix(t, AUTH) ELSE author
         IN  IF d # None /\ a # None THEN <<d, a>>
             ELSE MetadataLoop(Tail(lines), d, a)

\* parse_metadata; read is what fs::read_to_string gave: Some(text), or None
\* for any error.
parse_metadata(read) ==
    IF read = None THEN <<None, None>>
    ELSE MetadataLoop(Lines(read[1]), None, None)

\* SddmTheme::from_dir that skips the is_dir test
from_dir_KeepsFiles(e) ==
    LET m == parse_metadata(e.metadata)
    IN  Some([name |-> e.name, description |-> m[1], author |-> m[2]])

\* SddmTheme::from_dir on the path of the directory entry e.
from_dir(e) ==
    IF ~e.is_dir THEN None
    ELSE LET m == parse_metadata(e.metadata)
         IN  Some([name |-> e.name, description |-> m[1], author |-> m[2]])

\* .filter_map(|e| e.ok()).map(|e| e.path()).filter_map(SddmTheme::from_dir)
RECURSIVE FilterMapEntries(_)
FilterMapEntries(entries) ==
    IF entries = <<>> THEN <<>>
    ELSE LET e == Head(entries)
         IN  (IF e.ok /\ from_dir(e) # None THEN from_dir(e) ELSE <<>>)
                 \o FilterMapEntries(Tail(entries))

\* The place of a name in the ascending order of names.
NameRank(name) == CHOOSE i \in 1..Len(ThemeUniverse) : ThemeUniverse[i] = name

\* x put into the sorted sequence s, after the elements not above it.
RECURSIVE InsertByName(_, _)
InsertByName(s, x) ==
    IF s = <<>> THEN <<x>>
    ELSE IF NameRank(x.name) < NameRank(Head(s).name) THEN <<x>> \o s
    ELSE <<Head(s)>> \o InsertByName(Tail(s), x)

\* themes.sort_by(|a, b| a.name.cmp(&b.name))
RECURSIVE SortByName(_)
SortByName(s) ==
    IF s = <<>> THEN <<>>
    ELSE InsertByName(SortByName(SubSeq(s, 1, Len(s) - 1)), s[Len(s)])

\* A theme root that does not exist.
MissingRoot == [exists |-> FALSE, readable |-> FALSE, entries |-> <<>>]

NotScanned == <<"NotScanned">>

\* discover_themes(): Ok(no themes) without a root, the error of read_dir
\* when it fails, otherwise the themes of the readable entries, sorted.
discover_themes ==
    /\ scan = NotScanned
    /\ scan' = IF ~root.exists THEN Ok(<<>>)
               ELSE IF ~root.readable THEN Err("read_dir")
               ELSE Ok(SortByName(FilterMapEntries(root.entries)))
    /\ UNCHANGED root

\* The most entries drawn for the theme root.
MaxEntries == 2

\* What reading metadata.desktop can give: an error, "", a file with both
\* fields, and " Description= x \nDescription=y".
MetaFiles ==
    { None, Some(<<>>), Some(<<DESC, "x", LF, AUTH, "y", LF>>),
      Some(<<SP, DESC, SP, "x", SP, LF, DESC, "y">>) }

\* A directory entry as read_dir yields it: ok is FALSE for an Err item,
\* is_dir is what path.is_dir() answers, metadata what reading
\* metadata.desktop under it gives.
DirEntries ==
    [name : { ThemeUniverse[i] : i \in 1..Len(ThemeUniverse) },
     ok : BOOLEAN, is_dir : BOOLEAN, metadata : MetaFiles]

\* The listings read_dir can yield: entries of distinct names, in any order.
Listings ==
    { l \in UNION { [1..n -> DirEntries] : n \in 0..MaxEntries } :
        \A i \in 1..Len(l) : \A j \in 1..Len(l) : i # j => l[i].name # l[j].name }

\* The theme roots: missing, present but not listable, or listable.
Roots ==
    { MissingRoot, [exists |-> TRUE, readable |-> FALSE, entries |-> <<>>] }
        \cup { [exists |-> TRUE, readable |-> TRUE, entries |-> l] : l \in Listings }

----------------------------------------------------------------------------
(* App (app.rs)                                                            *)

\* themes.iter().position(|t| t.name == name), 0-based
Position(ths, name) ==
    IF \E i \in 1..Len(ths) : ths[i] = name
    THEN Some((CHOOSE i \in 1..Len(ths) :
                  /\ ths[i] = name
                  /\ \A j \in 1..(i - 1) : ths[j] # name) - 1)
    ELSE None
\* App::new that ignores config.current_theme and starts on the first entry
InitialSelection_AlwaysFirst(ths, cur) ==
    IF ths # <<>> THEN Some(0) ELSE None

\* The cursor App::new selects for the list ths and config.current_theme cur.
InitialSelection(ths, cur) ==
    LET found == IF cur = None THEN None ELSE Position(ths, cur[1])
        initial_selection == IF found = None THEN 0 ELSE found[1]
    IN  IF ths # <<>> THEN Some(initial_selection) ELSE None

\* The App that App::new(ths, config) builds, config.current_theme being cur.
new(ths, cur) ==
    /\ themes = ths
    /\ selected = InitialSelection(ths, cur)
    /\ current_theme = cur
    /\ mode = "Browsing"

selected_index == selected

\* highlighted_theme reading themes.get(i + 1)
highlighted_theme_OffByOne ==
    IF selected_index # None /\ selected_index[1] + 1 < Len(themes)
    THEN Some(themes[selected_index[1] + 2])
    ELSE None

\* self.selected_index().and_then(|i| self.themes.get(i))
highlighted_theme ==
    IF selected_index # None /\ selected_index[1] < Len(themes)
    THEN Some(themes[selected_index[1] + 1])
    ELSE None

\* move_up that stops at index 0 instead of wrapping
move_up_Saturating ==
    /\ selected' =
          IF themes = <<>> THEN selected
          ELSE IF selected = None \/ selected = Some(0)
          THEN Some(0)
          ELSE Some(selected[1] - 1)
    /\ UNCHANGED <<themes, mode, current_theme>>

move_up ==
    /\ selected' =
          IF themes = <<>> THEN selected
          ELSE IF selected = None \/ selected = Some(0)
          THEN Some(Len(themes) - 1)
          ELSE Some(selected[1] - 1)
    /\ UNCHANGED <<themes, mode, current_theme>>

\* move_down that stays on the last entry instead of wrapping
move_down_StopsAtEnd ==
    /\ selected' =
          IF themes = <<>> THEN selected
          ELSE IF selected = None THEN Some(0)
          ELSE IF selected[1] + 1 = Len(themes) THEN selected
          ELSE Some(selected[1] + 1)
    /\ UNCHANGED <<themes, mode, current_theme>>

\* move_down without the modulo
move_down_NoWrap ==
    /\ selected' =
          IF themes = <<>> THEN selected
          ELSE IF selected = None THEN Some(0)
          ELSE Some(selected[1] + 1)
    /\ UNCHANGED <<themes, mode, current_theme>>

move_down ==
    /\ selected' =
          IF themes = <<>> THEN selected
          ELSE IF selected = None THEN Some(0)
          ELSE Some((selected[1] + 1) % Len(themes))
    /\ UNCHANGED <<themes, mode, current_theme>>

\* Enter in Browsing without the is_empty() test
browsing_enter_Unchecked ==
    /\ mode' = "Confirming"
    /\ UNCHANGED <<themes, selected, current_theme>>

\* KeyCode::Enter in Browsing
browsing_enter ==
    /\ mode' = IF themes = <<>> THEN mode ELSE "Confirming"
    /\ UNCHANGED <<themes, selected, current_theme>>
\* handle_browsing_key whose quit arm lists only q
handle_browsing_key_EscIgnored(code) ==
    \/ /\ code \in {"Up", "k"}
       /\ move_up
       /\ ret' = None
       /\ UNCHANGED panicked
    \/ /\ code \in {"Down", "j"}
       /\ move_down
       /\ ret' = None
       /\ UNCHANGED panicked
    \/ /\ code = "Enter"
       /\ browsing_enter
       /\ ret' = None
       /\ UNCHANGED panicked
    \/ /\ code = "q"
       /\ ret' = Some(Quit)
       /\ UNCHANGED <<themes, selected, mode, current_theme, panicked>>
    \/ /\ code \notin {"Up", "k", "Down", "j", "Enter", "q"}
       /\ ret' = None
       /\ UNCHANGED <<themes, selected, mode, current_theme, panicked>>

handle_browsing_key(code) ==
    \/ /\ code \in {"Up", "k"}
       /\ move_up
       /\ ret' = None
       /\ UNCHANGED panicked
    \/ /\ code \in {"Down", "j"}
       /\ move_down
       /\ ret' = None
       /\ UNCHANGED panicked
    \/ /\ code = "Enter"
       /\ browsing_enter
       /\ ret' = None
       /\ UNCHANGED panicked
    \/ /\ code \in {"q", "Esc"}
       /\ ret' = Some(Quit)
       /\ UNCHANGED <<themes, selected, mode, current_theme, panicked>>
    \/ /\ code \notin {"Up", "k", "Down", "j", "Enter", "q", "Esc"}
       /\ ret' = None
       /\ UNCHANGED <<themes, selected, mode, current_theme, panicked>>

\* Enter, y or Y in Confirming: the expect() panics on None.
confirming_confirm ==
    /\ IF highlighted_theme = None
       THEN panicked' = TRUE /\ UNCHANGED ret
       ELSE ret' = Some(ApplyTheme(highlighted_theme[1])) /\ UNCHANGED panicked
    /\ UNCHANGED <<themes, selected, mode, current_theme>>
\* a cancel arm that also sends the cursor back to the first entry
confirming_cancel_ResetsCursor ==
    /\ mode' = "Browsing"
    /\ ret' = None
    /\ selected' = Some(0)
    /\ UNCHANGED <<themes, current_theme, panicked>>

\* n, N or Esc in Confirming
confirming_cancel ==
    /\ mode' = "Browsing"
    /\ ret' = None
    /\ UNCHANGED <<themes, selected, current_theme, panicked>>
\* handle_confirming_key whose catch-all arm still moves the cursor
handle_confirming_key_MovesCursor(code) ==
    \/ /\ code \in {"Enter", "y", "Y"}
       /\ confirming_confirm
    \/ /\ code \in {"n", "N", "Esc"}
       /\ confirming_cancel
    \/ /\ code \in {"Up", "k"}
       /\ move_up
       /\ ret' = None
       /\ UNCHANGED panicked
    \/ /\ code \in {"Down", "j"}
       /\ move_down
       /\ ret' = None
       /\ UNCHANGED panicked
    \/ /\ code \notin {"Enter", "y", "Y", "n", "N", "Esc", "Up", "k", "Down", "j"}
       /\ ret' = None
       /\ UNCHANGED <<themes, selected, mode, current_theme, panicked>>

\* handle_confirming_key whose cancel arm lists only n and N
handle_confirming_key_EscIgnored(code) ==
    \/ /\ code \in {"Enter", "y", "Y"}
       /\ confirming_confirm
    \/ /\ code \in {"n", "N"}
       /\ confirming_cancel
    \/ /\ code \notin {"Enter", "y", "Y", "n", "N"}
       /\ ret' = None
       /\ UNCHANGED <<themes, selected, mode, current_theme, panicked>>

\* handle_confirming_key whose catch-all arm cancels the dialog
handle_confirming_key_AnyKeyCancels(code) ==
    \/ /\ code \in {"Enter", "y", "Y"}
       /\ confirming_confirm
    \/ /\ code \notin {"Enter", "y", "Y"}
       /\ confirming_cancel

handle_confirming_key(code) ==
    \/ /\ code \in {"Enter", "y", "Y"}
       /\ confirming_confirm
    \/ /\ code \in {"n", "N", "Esc"}
       /\ confirming_cancel
    \/ /\ code \notin {"Enter", "y", "Y", "n", "N", "Esc"}
       /\ ret' = None
       /\ UNCHANGED <<themes, selected, mode, current_theme, panicked>>

\* No move_up or move_down call has been made since another call.
NoStreak == [dir |-> "none", start |-> None, len |-> 0]

\* The movement handle_key(code) makes in the current mode.
Direction(code) ==
    IF mode = "Browsing" /\ code \in {"Up", "k"} THEN "up"
    ELSE IF mode = "Browsing" /\ code \in {"Down", "j"} THEN "down"
    ELSE "none"

\* The history variables after handle_key(code).  streak.start is the cursor
\* before the first call of the run; streak.len counts its calls and stops
\* counting past Len(themes) + 1.
History(code) ==
    /\ key' = Some(code)
    /\ prev_mode' = mode
    /\ prev_selected' = selected
    /\ enter_before' = enter_seen
    /\ enter_seen' = (enter_seen \/ code = "Enter")
    /\ streak' =
          IF Direction(code) = "none" THEN NoStreak
          ELSE IF streak.dir = Direction(code)
          THEN [streak EXCEPT !.len = IF @ <= Len(themes) THEN @ + 1 ELSE @]
          ELSE [dir |-> Direction(code), start |-> selected, len |-> 1]
    /\ armed' = IF mode = "Browsing" /\ code = "Enter"
                THEN highlighted_theme
                ELSE armed

\* handle_key that tries the confirm arms in either mode
handle_key_NoDispatch(code) ==
    /\ ~panicked
    /\ History(code)
    /\ IF code \in {"y", "Y"} \/ mode = "Confirming"
       THEN handle_confirming_key(code)
       ELSE handle_browsing_key(code)

\* One call of App::handle_key; a panic ends the process.
handle_key(code) ==
    /\ ~panicked
    /\ History(code)
    /\ \/ mode = "Browsing" /\ handle_browsing_key(code)
       \/ mode = "Confirming" /\ handle_confirming_key(code)

----------------------------------------------------------------------------
(* main (main.rs) and the write path (config.rs)                           *)

NotReturned == <<"NotReturned">>

\* The characters of a theme's directory name, as they stand in a
\* configuration file; the order of the names is the order of their texts.
Spell(name) ==
    CASE name = "aerial" -> <<"x">>
      [] name = "breeze" -> <<"x", "x">>
      [] name = "maya" -> <<"y">>
      [] name = "sugar-candy" -> <<"y", "y">>

\* The theme name a configured value spells; "other" is borne by no
\* directory.
NameOf(text) ==
    IF \E i \in 1..Len(ThemeUniverse) : Spell(ThemeUniverse[i]) = text
    THEN ThemeUniverse[CHOOSE i \in 1..Len(ThemeUniverse) :
                          Spell(ThemeUniverse[i]) = text]
    ELSE "other"

\* config.current_theme as App::new receives it.
ConfiguredName(cur) == IF cur = None THEN None ELSE Some(NameOf(cur[1]))

\* The names of the scanned themes, in order.
ThemeNames(ths) == [i \in 1..Len(ths) |-> ths[i].name]

\* The process ends with the given status.
Exit(status) ==
    /\ pc' = "exited"
    /\ exit_status' = Some(status)

\* Step 2 of main: discover_themes()?, whose error ends main.
main_discover ==
    /\ pc = "loaded"
    /\ discover_themes
    /\ IF IsOk(scan')
       THEN pc' = "scanned" /\ UNCHANGED exit_status
       ELSE Exit(1)
    /\ UNCHANGED <<appVars, cfgVars, disk, cfg_path, resolved, load_failed,
                   terminal, loop_result, write_call, attempts, disk0>>

\* Steps 3 to 5 of main: App::new, then enter_terminal()?, which may fail
\* with raw mode already enabled.
main_enter ==
    /\ pc = "scanned"
    /\ themes' = ThemeNames(scan[2])
    /\ selected' = InitialSelection(ThemeNames(scan[2]),
                                    ConfiguredName(cfg_current))
    /\ current_theme' = ConfiguredName(cfg_current)
    /\ mode' = "Browsing"
    /\ \E entered \in BOOLEAN :
          IF entered
          THEN terminal' = "raw" /\ pc' = "looping" /\ UNCHANGED exit_status
          ELSE terminal' \in {"cooked", "raw"} /\ Exit(1)
    /\ UNCHANGED <<key, ret, panicked, enter_seen, prev_mode, prev_selected,
                   enter_before, streak, armed>>
    /\ UNCHANGED <<cfgVars, scanVars, disk, cfg_path, resolved, load_failed,
                   loop_result, write_call, attempts, disk0>>

\* One key press read by run_event_loop: handle_key, and the loop returns
\* the action when there is one.  A panic ends the process after the hook
\* tried to restore the terminal.
event_loop_key(code) ==
    /\ pc = "looping"
    /\ handle_key(code)
    /\ IF panicked'
       THEN /\ terminal' \in {"cooked", "raw"}
            /\ Exit(101)
            /\ UNCHANGED loop_result
       ELSE /\ loop_result' = IF ret' # None THEN Ok(ret'[1]) ELSE loop_result
            /\ pc' = IF ret' # None THEN "returned" ELSE pc
            /\ UNCHANGED <<terminal, exit_status>>
    /\ UNCHANGED <<cfgVars, scanVars, disk, cfg_path, resolved, load_failed,
                   write_call, attempts, disk0>>

\* terminal.draw, event::poll or event::read failed: the loop returns Err.
event_loop_error ==
    /\ pc = "looping"
    /\ loop_result' = Err("io")
    /\ pc' = "returned"
    /\ UNCHANGED <<appVars, cfgVars, scanVars, disk, cfg_path, resolved,
                   load_failed, terminal, write_call, attempts, exit_status,
                   disk0>>

\* main that calls write_theme before it restores the terminal and whatever
\* the restore gave
main_restore_WritesFirst ==
    /\ pc = "returned"
    /\ \E restored \in BOOLEAN :
          /\ terminal' = IF IsOk(loop_result) /\ loop_result[2] # Quit
                         THEN terminal
                         ELSE "cooked"
          /\ IF ~IsOk(loop_result) THEN Exit(1) /\ UNCHANGED write_call
             ELSE IF loop_result[2] = Quit THEN Exit(0) /\ UNCHANGED write_call
             ELSE /\ write_call' =
                        Some([name |-> loop_result[2][2],
                              content |-> apply_theme_to_content(
                                              raw_content,
                                              Spell(loop_result[2][2]))])
                  /\ pc' = "writing"
                  /\ UNCHANGED exit_status
    /\ UNCHANGED <<appVars, cfgVars, scanVars, disk, cfg_path, resolved,
                   load_failed, loop_result, attempts, disk0>>

\* Steps 6 and 7 of main up to the write: restore_terminal, result?,
\* restore_err?, then Ok(()) for Quit or write_theme(name) for ApplyTheme.
main_restore ==
    /\ pc = "returned"
    /\ \E restored \in BOOLEAN :
          /\ IF restored THEN terminal' = "cooked"
                         ELSE terminal' \in {"cooked", "raw"}
          /\ IF ~IsOk(loop_result) \/ ~restored
             THEN Exit(1) /\ UNCHANGED write_call
             ELSE IF loop_result[2] = Quit
             THEN Exit(0) /\ UNCHANGED write_call
             ELSE /\ write_call' =
                        Some([name |-> loop_result[2][2],
                              content |-> apply_theme_to_content(
                                              raw_content,
                                              Spell(loop_result[2][2]))])
                  /\ pc' = "writing"
                  /\ UNCHANGED exit_status
    /\ UNCHANGED <<appVars, cfgVars, scanVars, disk, cfg_path, resolved,
                   load_failed, loop_result, attempts, disk0>>

\* path.parent() exists: /etc does, /etc/sddm.conf.d when it is a directory.
ParentExists(d, path) == path = SDDM_CONF \/ d.conf_d.is_dir

\* The disk after content was stored at path.
WriteFile(d, path, content) ==
    LET f == [exists |-> TRUE,
              readable |-> IF FileAt(d, path).exists
                           THEN FileAt(d, path).readable
                           ELSE TRUE,
              content |-> content]
        es == d.conf_d.entries
    IN  IF path = SDDM_CONF THEN [d EXCEPT !.legacy = f]
        ELSE IF \E i \in 1..Len(es) : Join(SDDM_CONF_D, es[i].name) = path
        THEN [d EXCEPT !.conf_d.entries =
                 [i \in 1..Len(es) |->
                     IF Join(SDDM_CONF_D, es[i].name) = path
                     THEN [es[i] EXCEPT !.file = f]
                     ELSE es[i]]]
        ELSE [d EXCEPT !.conf_d.entries =
                 Append(es, [name |-> path[Len(path)], ok |-> TRUE, file |-> f])]

\* How try_direct_write can end: written; File::create refused for want of
\* permission, or for another reason; write_all failed after the file was
\* created or truncated.
DirectOutcomes == {"ok", "PermissionDenied", "CreateFailed", "WriteFailed"}

\* How sudo_tee can end: written; sudo could not be spawned; tee or sudo
\* exited with a failure status.
SudoOutcomes == {"ok", "SpawnFailed", "ExitFailure"}

\* write_to_path up to the unprivileged attempt: the parent directory is
\* made when missing (a failed sudo mkdir returns Err), then
\* try_direct_write; any failure of it leads to sudo_tee.
write_direct ==
    /\ pc = "writing"
    /\ \E outcome \in DirectOutcomes, mkdir_ok \in BOOLEAN :
          IF ~ParentExists(disk, cfg_path[1]) /\ ~mkdir_ok
          THEN Exit(1) /\ UNCHANGED <<disk, attempts>>
          ELSE /\ attempts' = Append(attempts,
                                 [how |-> "direct", path |-> cfg_path[1],
                                  bytes |-> write_call[1].content,
                                  outcome |-> outcome])
               /\ disk' = IF outcome = "ok"
                          THEN WriteFile(disk, cfg_path[1], write_call[1].content)
                          ELSE IF outcome = "WriteFailed"
                          THEN WriteFile(disk, cfg_path[1], <<>>)
                          ELSE disk
               /\ IF outcome = "ok" THEN Exit(0)
                  ELSE pc' = "escalating" /\ UNCHANGED exit_status
    /\ UNCHANGED <<appVars, cfgVars, scanVars, cfg_path, resolved, load_failed,
                   terminal, loop_result, write_call, disk0>>

\* sudo_tee that is tried again after a failure
write_sudo_Retries ==
    /\ pc = "escalating"
    /\ \E outcome \in SudoOutcomes :
          /\ attempts' = Append(attempts,
                            [how |-> "sudo", path |-> cfg_path[1],
                             bytes |-> write_call[1].content,
                             outcome |-> outcome])
          /\ disk' = IF outcome = "ok"
                     THEN WriteFile(disk, cfg_path[1], write_call[1].content)
                     ELSE disk
          /\ IF outcome = "ok" THEN Exit(0)
             ELSE IF Len(attempts) < 2 THEN UNCHANGED <<pc, exit_status>>
             ELSE Exit(1)
    /\ UNCHANGED <<appVars, cfgVars, scanVars, cfg_path, resolved, load_failed,
                   terminal, loop_result, write_call, disk0>>

\* sudo_tee, and main's match on what write_theme returned: Ok ends the run
\* with status 0, Err with std::process::exit(1).
write_sudo ==
    /\ pc = "escalating"
    /\ \E outcome \in SudoOutcomes :
          /\ attempts' = Append(attempts,
                            [how |-> "sudo", path |-> cfg_path[1],
                             bytes |-> write_call[1].content,
                             outcome |-> outcome])
          /\ disk' = IF outcome = "ok"
                     THEN WriteFile(disk, cfg_path[1], write_call[1].content)
                     ELSE disk
          /\ IF outcome = "ok" THEN Exit(0) ELSE Exit(1)
    /\ UNCHANGED <<appVars, cfgVars, scanVars, cfg_path, resolved, load_failed,
                   terminal, loop_result, write_call, disk0>>

\* The theme roots of the runs of main: missing, not listable, and one where
\* read_dir lists maya before aerial.
MainRoots ==
    { MissingRoot,
      [exists |-> TRUE, readable |-> FALSE, entries |-> <<>>],
      [exists |-> TRUE, readable |-> TRUE,
       entries |-> << [name |-> "maya", ok |-> TRUE, is_dir |-> TRUE,
                       metadata |-> None],
                      [name |-> "aerial", ok |-> TRUE, is_dir |-> TRUE,
                       metadata |-> None] >>] }

\* The disks of the runs of main: any legacy file, and a drop-in directory
\* that is absent, empty, or holds theme.conf alone.
MainDisks ==
    [legacy : Files \cup {NoFile},
     conf_d : { [is_dir |-> FALSE, listable |-> FALSE, entries |-> <<>>],
                [is_dir |-> TRUE, listable |-> TRUE, entries |-> <<>>] }
              \cup { [is_dir |-> TRUE, listable |-> TRUE,
                      entries |-> << [name |-> ThemeConf, ok |-> TRUE,
                                      file |-> f] >>] : f \in Files }]

----------------------------------------------------------------------------
(* Specifications                                                          *)

\* The configuration side while the selection model runs: an empty config.
CfgIdle ==
    /\ file = <<>>
    /\ Loaded(<<>>)
    /\ phase = "loaded"
    /\ runs = 0
    /\ written = <<>>

\* The selection side while the configuration model runs: an empty list.
AppIdle ==
    /\ new(<<>>, None)
    /\ key = None
    /\ ret = None
    /\ panicked = FALSE
    /\ enter_seen = FALSE
    /\ enter_before = FALSE
    /\ streak = NoStreak
    /\ armed = None
    /\ prev_mode = "Browsing"
    /\ prev_selected = None

\* The theme root while another model runs: no root, nothing scanned.
ScanIdle ==
    /\ root = MissingRoot
    /\ scan = NotScanned

\* main while another model runs: not started, on an empty disk.
MainIdle ==
    /\ disk = EmptyDisk
    /\ pc = "start"
    /\ cfg_path = None
    /\ resolved = None
    /\ load_failed = FALSE
    /\ terminal = "cooked"
    /\ loop_result = NotReturned
    /\ write_call = None
    /\ attempts = <<>>
    /\ exit_status = None
    /\ disk0 = EmptyDisk

\* The disk and main while the selection model or the patcher runs.
EnvIdle == ScanIdle /\ MainIdle

\* The selection state machine: App::new, then any handle_key calls.
Init ==
    /\ \E ths \in ThemeLists, cur \in CurrentThemes : new(ths, cur)
    /\ key = None
    /\ ret = None
    /\ panicked = FALSE
    /\ enter_seen = FALSE
    /\ enter_before = FALSE
    /\ streak = NoStreak
    /\ armed = None
    /\ prev_mode = mode
    /\ prev_selected = selected
    /\ CfgIdle
    /\ EnvIdle

Next ==
    /\ \E code \in KeyCodes : handle_key(code)
    /\ UNCHANGED <<cfgVars, envVars>>

Spec == Init /\ [][Next]_vars

\* The configuration patcher: a loaded document, then runs that write a
\* theme name and load the result again.
InitPatch ==
    /\ \E doc \in Docs : file = doc /\ Loaded(doc)
    /\ phase = "loaded"
    /\ runs = 0
    /\ written = <<>>
    /\ AppIdle
    /\ EnvIdle

NextPatch ==
    \/ /\ \E theme_name \in Values : write_theme(theme_name)
       /\ UNCHANGED <<appVars, envVars>>
    \/ /\ load
       /\ UNCHANGED <<appVars, envVars>>

SpecPatch == InitPatch /\ [][NextPatch]_vars

\* The scanner: a theme root, then one discover_themes call.
InitScan ==
    /\ root \in Roots
    /\ scan = NotScanned
    /\ AppIdle
    /\ CfgIdle
    /\ MainIdle

NextScan == discover_themes /\ UNCHANGED <<appVars, cfgVars, mainVars>>

SpecScan == InitScan /\ [][NextScan]_vars

\* Loading the configuration: a disk, then step 1 of main.
InitLoad ==
    /\ disk \in Disks
    /\ pc = "start"
    /\ cfg_path = None
    /\ resolved = None
    /\ load_failed = FALSE
    /\ terminal = "cooked"
    /\ loop_result = NotReturned
    /\ write_call = None
    /\ attempts = <<>>
    /\ exit_status = None
    /\ disk0 = disk
    /\ AppIdle
    /\ CfgIdle
    /\ ScanIdle

NextLoad == main_load /\ UNCHANGED <<appVars, scanVars>>

SpecLoad == InitLoad /\ [][NextLoad]_vars

\* A run of main: a disk and a theme root, then the steps of main.
InitMain ==
    /\ disk \in MainDisks
    /\ root \in MainRoots
    /\ scan = NotScanned
    /\ pc = "start"
    /\ cfg_path = None
    /\ resolved = None
    /\ load_failed = FALSE
    /\ terminal = "cooked"
    /\ loop_result = NotReturned
    /\ write_call = None
    /\ attempts = <<>>
    /\ exit_status = None
    /\ disk0 = disk
    /\ AppIdle
    /\ CfgIdle

NextMain ==
    \/ main_load /\ UNCHANGED <<appVars, scanVars>>
    \/ main_discover
    \/ main_enter
    \/ \E code \in KeyCodes : event_loop_key(code)
    \/ event_loop_error
    \/ main_restore
    \/ write_direct
    \/ write_sudo

SpecMain == InitMain /\ [][NextMain]_vars

----------------------------------------------------------------------------
(* Vocabulary of the properties                                            *)

\* v holds no line feed.
SingleLine(v) == \A i \in 1..Len(v) : v[i] # LF

\* v is a non-empty single line without leading or trailing whitespace.
Canonical(v) == v # <<>> /\ SingleLine(v) /\ Trim(v) = v

\* a is b with some elements left out.
RECURSIVE IsSubseq(_, _)
IsSubseq(a, b) ==
    IF a = <<>> THEN TRUE
    ELSE IF b = <<>> THEN FALSE
    ELSE IF Head(a) = Head(b) THEN IsSubseq(Tail(a), Tail(b))
    ELSE IsSubseq(a, Tail(b))

\* The lines of one kind, in order: "key", a Current= line inside [Theme];
\* "other", every line that is not one; "outside", a line that is neither
\* a [Theme] header nor inside [Theme]; "header", a [Theme] header.
RECURSIVE SelectLines(_, _, _)
SelectLines(lines, in_theme, kind) ==
    IF lines = <<>> THEN <<>>
    ELSE LET t == Trim(Head(lines))
             header == StartsWithBracket(t)
             now_in == IF header THEN t = ThemeHeader ELSE in_theme
             is_key == ~header /\ in_theme /\ StartsWithKey(t)
             keep == CASE kind = "key" -> is_key
                       [] kind = "other" -> ~is_key
                       [] kind = "outside" -> ~now_in
                       [] kind = "header" -> header /\ now_in
         IN  (IF keep THEN <<Head(lines)>> ELSE <<>>)
                 \o SelectLines(Tail(lines), now_in, kind)

KeyLines(content) == SelectLines(Lines(content), FALSE, "key")

OtherLines(content) == SelectLines(Lines(content), FALSE, "other")

OutsideLines(content) == SelectLines(Lines(content), FALSE, "outside")

ThemeHeaders(content) == SelectLines(Lines(content), FALSE, "header")

IsKeyLine(line) == StartsWithKey(Trim(line))

\* b is a with one Current= line inserted, or with one line replaced by one.
OneKeyLineApart(a, b) ==
    \/ /\ Len(b) = Len(a) + 1
       /\ \E i \in 1..Len(b) :
             /\ IsKeyLine(b[i])
             /\ a = SubSeq(b, 1, i - 1) \o SubSeq(b, i + 1, Len(b))
    \/ /\ Len(b) = Len(a)
       /\ \E i \in 1..Len(b) :
             /\ IsKeyLine(b[i])
             /\ \A j \in 1..Len(b) : j # i => a[j] = b[j]

\* write_theme has just returned: raw_content is what it read, file what it
\* wrote, Last(written) the name it was given.
JustWritten == phase = "written"

----------------------------------------------------------------------------
(* C1: round trip                                                          *)

\* C1 as stated: for any document and any value V, parse_current_theme of
\* the document patched with V returns V.
C1_RoundTripAnyValue ==
    JustWritten => parse_current_theme(file) = Some(Last(written))

\* C1 amended: for any document and any value V that is a non-empty single
\* line without leading or trailing whitespace, parse_current_theme of the
\* document patched with V returns V.
C1_RoundTrip ==
    JustWritten /\ Canonical(Last(written))
        => parse_current_theme(file) = Some(Last(written))

\* A document whose recorded theme was another one is patched and read back.
C1_Witness ==
    /\ JustWritten
    /\ Canonical(Last(written))
    /\ cfg_current # None
    /\ cfg_current # Some(Last(written))
    /\ parse_current_theme(file) = Some(Last(written))

----------------------------------------------------------------------------
(* C2: idempotence                                                         *)

\* The last two runs wrote the same name: raw_content is the result of the
\* first application, file the result of the second.
WroteTwice ==
    /\ JustWritten
    /\ Len(written) = 2
    /\ written[1] = written[2]

\* C2 as stated: for any document and any value V, patching the patched
\* document with V again yields exactly the patched document.
C2_IdempotentAnyValue == WroteTwice => file = raw_content

\* C2 amended: for any document and any single-line value V, patching the
\* patched document with V again yields exactly the patched document.
C2_Idempotent == WroteTwice /\ SingleLine(Last(written)) => file = raw_content

\* The same single-line name was written twice into a file that has other
\* sections, and the second write changed nothing.
C2_Witness ==
    /\ WroteTwice
    /\ SingleLine(Last(written))
    /\ Len(OutsideLines(raw_content)) >= 2
    /\ file = raw_content

----------------------------------------------------------------------------
(* C3: preservation                                                        *)

\* Every input line other than a Current= line inside [Theme] is in the
\* output, unchanged and in the same order.
OtherLinesKept == IsSubseq(OtherLines(raw_content), Lines(file))

\* C3 as stated: the other lines are kept, and the lines outside [Theme]
\* differ between input and output by at most one inserted or replaced key
\* line.
C3_PreservationKeyLineOnly ==
    JustWritten =>
        /\ OtherLinesKept
        /\ \/ OutsideLines(file) = OutsideLines(raw_content)
           \/ OneKeyLineApart(OutsideLines(raw_content), OutsideLines(file))

\* C3 amended: for a single-line value the other lines are kept, and the
\* lines outside [Theme] are the same in input and output, except that one
\* blank line is appended to them when the input has no [Theme] header.
C3_Preservation ==
    JustWritten /\ SingleLine(Last(written)) =>
        /\ OtherLinesKept
        /\ IF ThemeHeaders(raw_content) = <<>>
           THEN OutsideLines(file) = Append(OutsideLines(raw_content), <<>>)
           ELSE OutsideLines(file) = OutsideLines(raw_content)

\* A document with lines before and after its [Theme] section had its
\* Current= line replaced.
C3_Witness ==
    /\ JustWritten
    /\ SingleLine(Last(written))
    /\ KeyLines(raw_content) # <<>>
    /\ KeyLines(raw_content) # KeyLines(file)
    /\ OutsideLines(raw_content) # <<>>
    /\ ~ (ThemeHeaders(raw_content) = <<>>)
    /\ OutsideLines(file) = OutsideLines(raw_content)

----------------------------------------------------------------------------
(* C4: no duplicated key                                                   *)

\* C4 as stated: for any document and value the output holds at most one
\* Current= line belonging to [Theme].
C4_AtMostOneKeyAnyDocument == JustWritten => Len(KeyLines(file)) <= 1

\* C4 amended: for a single-line value the patch adds at most one Current=
\* line to those belonging to [Theme], and a document that has at most one
\* [Theme] header and at most one Current= line under it comes out with
\* exactly one.
C4_AtMostOneKey ==
    JustWritten /\ SingleLine(Last(written)) =>
        /\ Len(KeyLines(file)) <= Len(KeyLines(raw_content)) + 1
        /\ Len(KeyLines(file)) >= 1
        /\ (Len(ThemeHeaders(raw_content)) <= 1 /\ Len(KeyLines(raw_content)) <= 1
               => Len(KeyLines(file)) = 1)

\* A [Theme] section without a key, followed by another section, received
\* its one Current= line.
C4_Witness ==
    /\ JustWritten
    /\ SingleLine(Last(written))
    /\ Len(ThemeHeaders(raw_content)) = 1
    /\ KeyLines(raw_content) = <<>>
    /\ Len(OutsideLines(raw_content)) >= 1
    /\ Len(KeyLines(file)) = 1

----------------------------------------------------------------------------
(* Vocabulary of the selection properties                                  *)

UpKeys == {"Up", "k"}

DownKeys == {"Down", "j"}

ConfirmKeys == {"Enter", "y", "Y"}

\* The last handle_key call was given a key of K.
KeyIn(K) == key # None /\ key[1] \in K

\* The last handle_key call returned Some(ExitAction::ApplyTheme(_)).
ReturnedApply == ret # None /\ ret[1][1] = "ApplyTheme"

----------------------------------------------------------------------------
(* C5: the cursor invariant                                                *)

\* C5: initially and after any handle_key calls, selected_index() is None
\* exactly when the theme list is empty, and otherwise is an index i with
\* 0 <= i < len(themes).
C5_CursorInvariant ==
    /\ (selected_index = None) <=> (themes = <<>>)
    /\ selected_index # None => selected_index[1] \in 0..(Len(themes) - 1)

\* The cursor wrapped from the first entry to the last of a longer list.
C5_Witness ==
    /\ KeyIn(UpKeys)
    /\ Len(themes) >= 2
    /\ prev_selected = Some(0)
    /\ selected = Some(Len(themes) - 1)

----------------------------------------------------------------------------
(* C6: the mode invariant                                                  *)

\* C6: in every state reachable from App::new by handle_key calls, mode ==
\* Confirming implies that the theme list is non-empty and the cursor is
\* Some.
C6_ConfirmingHasSelection ==
    mode = "Confirming" => themes # <<>> /\ selected # None

\* Enter in Browsing has opened the confirmation dialog.
C6_Witness ==
    /\ mode = "Confirming"
    /\ prev_mode = "Browsing"
    /\ KeyIn({"Enter"})
    /\ selected # None

----------------------------------------------------------------------------
(* C7: the two-step apply protocol                                         *)

\* C7: ApplyTheme is returned only by a confirm key handled in Confirming;
\* Confirming is entered only by Enter handled in Browsing with a non-empty
\* list; so every ApplyTheme has an earlier Enter keystroke before the call
\* that returns it, and no call made in Browsing returns ApplyTheme.
C7_TwoStepApply ==
    /\ ReturnedApply => KeyIn(ConfirmKeys) /\ prev_mode = "Confirming"
    /\ mode = "Confirming" /\ prev_mode = "Browsing"
           => KeyIn({"Enter"}) /\ themes # <<>>
    /\ ReturnedApply => enter_before
    /\ key = None => mode = "Browsing"

\* Enter, some navigation in between or not, then y: ApplyTheme came back.
C7_Witness ==
    /\ ReturnedApply
    /\ KeyIn({"y"})
    /\ prev_mode = "Confirming"
    /\ enter_before

----------------------------------------------------------------------------
(* C8: confirm returns the highlighted entry and never panics              *)

\* C8: a confirm key in Confirming returns ApplyTheme(name), name being the
\* entry at the cursor, and the expect() of handle_confirming_key never
\* panics in a state reachable by handle_key calls.
C8_ConfirmTotal ==
    /\ ~panicked
    /\ KeyIn(ConfirmKeys) /\ prev_mode = "Confirming"
           => /\ prev_selected # None
              /\ prev_selected[1] < Len(themes)
              /\ ret = Some(ApplyTheme(themes[prev_selected[1] + 1]))

\* A confirm key returned the last entry of a longer list.
C8_Witness ==
    /\ KeyIn(ConfirmKeys)
    /\ prev_mode = "Confirming"
    /\ Len(themes) >= 2
    /\ prev_selected = Some(Len(themes) - 1)
    /\ ret = Some(ApplyTheme(themes[Len(themes)]))

----------------------------------------------------------------------------
(* C9: navigation never changes mode                                       *)

\* C9: handling an up key or a down key leaves mode as it was, in every
\* state.
C9_NavigationKeepsMode == KeyIn(UpKeys \cup DownKeys) => mode = prev_mode

\* A down key moved the cursor and the mode is still Browsing.
C9_Witness ==
    /\ KeyIn(DownKeys)
    /\ prev_mode = "Browsing"
    /\ mode = "Browsing"
    /\ selected # prev_selected

----------------------------------------------------------------------------
(* C10: wraparound                                                         *)

\* move_down() or move_up() has just run: an up or down key in Browsing.
Moved(K) == KeyIn(K) /\ prev_mode = "Browsing" /\ themes # <<>>

\* C10: for a non-empty list, move_down() at len-1 sets the cursor to 0 and
\* move_up() at 0 sets it to len-1; at every other index move_down adds 1
\* and move_up subtracts 1.
C10_Wraparound ==
    /\ Moved(DownKeys) /\ prev_selected # None =>
          selected = IF prev_selected[1] = Len(themes) - 1
                     THEN Some(0)
                     ELSE Some(prev_selected[1] + 1)
    /\ Moved(UpKeys) /\ prev_selected # None =>
          selected = IF prev_selected[1] = 0
                     THEN Some(Len(themes) - 1)
                     ELSE Some(prev_selected[1] - 1)

\* move_down() wrapped from the last entry of a three-entry list to 0.
C10_Witness ==
    /\ Moved(DownKeys)
    /\ Len(themes) = 3
    /\ prev_selected = Some(2)
    /\ selected = Some(0)

----------------------------------------------------------------------------
(* C11: full cycle                                                         *)

\* The last Len(themes) calls were all move_down() (dir = "down") or all
\* move_up() (dir = "up") on a non-empty list.
CycleDone(dir) ==
    /\ themes # <<>>
    /\ streak.dir = dir
    /\ streak.len = Len(themes)

\* C11: for every non-empty list and every starting cursor, move_down()
\* applied exactly len times returns the cursor to its starting index, and
\* so does move_up() applied len times.
C11_FullCycle ==
    /\ CycleDone("down") => selected = streak.start
    /\ CycleDone("up") => selected = streak.start

\* Three move_up() calls on a three-entry list, started from index 1.
C11_Witness ==
    /\ CycleDone("up")
    /\ Len(themes) = 3
    /\ streak.start = Some(1)
    /\ selected = Some(1)

----------------------------------------------------------------------------
(* C12: construction                                                       *)

\* App::new has returned and no key has been handled yet.
Constructed == key = None

\* The 0-based indices of the entries named like the recorded current theme.
ActiveIndices ==
    { i \in 0..(Len(themes) - 1) : current_theme = Some(themes[i + 1]) }

\* C12: App::new starts in Browsing; the cursor is on the index of the entry
\* whose name equals the config's current theme when there is one, on index
\* 0 when the list is non-empty and no entry matches or no current theme is
\* recorded, and absent when the list is empty.
C12_Construction ==
    Constructed =>
        /\ mode = "Browsing"
        /\ ActiveIndices # {} => selected # None /\ selected[1] \in ActiveIndices
        /\ ActiveIndices = {} /\ themes # <<>> => selected = Some(0)
        /\ themes = <<>> => selected = None

\* App::new put the cursor on the third entry, the recorded current theme.
C12_Witness ==
    /\ Constructed
    /\ Len(themes) = 3
    /\ current_theme = Some(themes[3])
    /\ selected = Some(2)

----------------------------------------------------------------------------
(* C13: the keys of Browsing                                               *)

QuitKeys == {"q", "Esc"}

\* The key given to the handle_key call of this step is one of K.
Pressed(K) == key' # None /\ key'[1] \in K

\* What a handle_key call made in Browsing does, by key.
BrowsingStep ==
    /\ Pressed(QuitKeys) => ret' = Some(Quit)
    /\ Pressed({"Enter"}) /\ themes # <<>> => mode' = "Confirming"
    /\ Pressed({"Enter"}) /\ themes = <<>> =>
          /\ ret' = None
          /\ UNCHANGED <<themes, selected, mode, current_theme, panicked>>
    /\ Pressed(KeyCodes \ (UpKeys \cup DownKeys \cup {"Enter"} \cup QuitKeys)) =>
          /\ ret' = None
          /\ UNCHANGED <<mode, selected>>
    /\ Pressed(UpKeys \cup DownKeys) /\ themes = <<>> =>
          /\ selected = None
          /\ selected' = None

\* C13: in Browsing, q or Escape returns Quit; Enter switches to Confirming
\* when the list is non-empty and changes nothing when it is empty; every
\* key other than the up, down, Enter and quit keys returns None and leaves
\* mode and cursor unchanged; with an empty list the cursor stays absent
\* under every movement key.
C13_BrowsingKeys == [][mode = "Browsing" => BrowsingStep]_vars

\* Escape was pressed in Browsing and handle_key returned Quit.
C13_Witness ==
    /\ KeyIn({"Esc"})
    /\ prev_mode = "Browsing"
    /\ ret = Some(Quit)

----------------------------------------------------------------------------
(* C14: cancel discards no state                                           *)

CancelKeys == {"n", "N", "Esc"}

\* C14: a cancel key (n, N, Escape) in Confirming returns None, sets mode to
\* Browsing and leaves the cursor, the theme list and the recorded active
\* theme exactly as they were; Escape in Confirming never returns Quit.
C14_CancelKeepsState ==
    [][mode = "Confirming" /\ Pressed(CancelKeys) =>
          /\ ret' = None
          /\ ret' # Some(Quit)
          /\ mode' = "Browsing"
          /\ UNCHANGED <<selected, themes, current_theme>>]_vars

\* Escape closed the dialog opened on the third entry; the cursor is still
\* there.
C14_Witness ==
    /\ KeyIn({"Esc"})
    /\ prev_mode = "Confirming"
    /\ mode = "Browsing"
    /\ ret = None
    /\ prev_selected = Some(2)
    /\ selected = Some(2)

----------------------------------------------------------------------------
(* Vocabulary of the four cases of the patch                               *)

\* The line is a section header.
IsHeader(line) == StartsWithBracket(Trim(line))

\* The line is a [Theme] header.
IsThemeHeader(line) == Trim(line) = ThemeHeader

\* in_theme after the first i lines.
RECURSIVE InThemeAt(_, _)
InThemeAt(lines, i) ==
    IF i = 0 THEN FALSE
    ELSE IF IsHeader(lines[i]) THEN IsThemeHeader(lines[i])
    ELSE InThemeAt(lines, i - 1)

\* Line i is a Current= line inside [Theme].
IsThemeKeyAt(lines, i) == IsKeyLine(lines[i]) /\ InThemeAt(lines, i - 1)

\* h is the first [Theme] header of lines.
FirstThemeHeaderAt(lines, h) ==
    /\ h \in 1..Len(lines)
    /\ IsThemeHeader(lines[h])
    /\ \A j \in 1..(h - 1) : ~IsThemeHeader(lines[j])

\* The section opened by the first [Theme] header holds a Current= line.
FirstSectionHasKey(lines) ==
    \E h \in 1..Len(lines) :
        /\ FirstThemeHeaderAt(lines, h)
        /\ \E i \in (h + 1)..Len(lines) :
              /\ IsKeyLine(lines[i])
              /\ \A j \in (h + 1)..(i - 1) : ~IsHeader(lines[j])

\* The name given to the write_theme call that has just returned.
V == Last(written)

----------------------------------------------------------------------------
(* C15: case 1, replace in place                                           *)

\* The output has as many lines as the input, and where the input has a
\* Current= line inside [Theme] the output has exactly Current=<V>.
ReplacedInPlace ==
    LET a == Lines(raw_content)
        b == Lines(file)
    IN  /\ Len(b) = Len(a)
        /\ \A i \in 1..Len(a) : IsThemeKeyAt(a, i) => b[i] = NewLine(V)

\* C15 as stated: when the document has a [Theme] section containing a
\* Current= line, that line is replaced by Current=<V> at the same line
\* position and the total number of lines is unchanged.
C15_ReplaceAnyDocument ==
    JustWritten /\ KeyLines(raw_content) # <<>> => ReplacedInPlace

\* C15 amended: when the first [Theme] section of the document contains a
\* Current= line and V is a single line, every Current= line inside [Theme]
\* is replaced by exactly Current=<V> at the same line position and the
\* total number of lines is unchanged.
C15_ReplaceInPlace ==
    JustWritten /\ SingleLine(V) /\ FirstSectionHasKey(Lines(raw_content))
        => ReplacedInPlace

\* " Current= y " on the second of three lines became "Current=x".
C15_Witness ==
    /\ JustWritten
    /\ V = <<"x">>
    /\ FirstSectionHasKey(Lines(raw_content))
    /\ Len(Lines(raw_content)) = 3
    /\ Lines(raw_content)[2] = <<SP, KEY, SP, "y", SP>>
    /\ Len(Lines(file)) = 3
    /\ Lines(file)[2] = NewLine(V)

----------------------------------------------------------------------------
(* C16: case 2, insert into the section                                    *)

\* The index of the first section header after line h, or Len(lines) + 1
\* when no header follows.
NextHeaderAfter(lines, h) ==
    IF \E n \in (h + 1)..Len(lines) : IsHeader(lines[n])
    THEN CHOOSE n \in (h + 1)..Len(lines) :
            /\ IsHeader(lines[n])
            /\ \A j \in (h + 1)..(n - 1) : ~IsHeader(lines[j])
    ELSE Len(lines) + 1

\* The document has a [Theme] header and no Current= line inside [Theme].
SectionWithoutKey ==
    /\ ThemeHeaders(raw_content) # <<>>
    /\ KeyLines(raw_content) = <<>>

\* The output is the input with the one line Current=<V> inserted
\* immediately before the next section header that follows the first
\* [Theme] header, or as the last line when no header follows it.
InsertedIntoSection ==
    LET a == Lines(raw_content)
        h == CHOOSE i \in 1..Len(a) : FirstThemeHeaderAt(a, i)
        n == NextHeaderAfter(a, h)
    IN  Lines(file) =
            SubSeq(a, 1, n - 1) \o <<NewLine(V)>> \o SubSeq(a, n, Len(a))

\* C16 as stated: when [Theme] exists without a Current= line, exactly one
\* Current=<V> line is inserted, immediately before the next section header
\* that follows [Theme], or as the last line of the file when [Theme] is
\* the last section.
C16_InsertAnyValue == JustWritten /\ SectionWithoutKey => InsertedIntoSection

\* C16 amended: when [Theme] exists without a Current= line and V is a
\* single line, exactly one Current=<V> line is inserted, immediately before
\* the next section header that follows the first [Theme] header, or as the
\* last line of the file when no header follows it.
C16_InsertIntoSection ==
    JustWritten /\ SingleLine(V) /\ SectionWithoutKey => InsertedIntoSection

\* "[Theme]", "x", "[x" received Current=<V> as its third line, before "[x".
C16_Witness ==
    /\ JustWritten
    /\ SectionWithoutKey
    /\ Lines(raw_content) = <<ThemeHeader, <<"x">>, <<LB, "x">> >>
    /\ V = <<"y">>
    /\ Lines(file) = <<ThemeHeader, <<"x">>, NewLine(V), <<LB, "x">> >>

----------------------------------------------------------------------------
(* C17: case 3, append the section                                         *)

\* The document is not empty and has no [Theme] header.
NoSection == raw_content # <<>> /\ ThemeHeaders(raw_content) = <<>>

\* The output is the input lines followed by a blank line, "[Theme]" and
\* Current=<V>.
SectionAppended ==
    Lines(file) = Lines(raw_content) \o << <<>>, ThemeHeader, NewLine(V) >>

\* C17 as stated: when the non-empty document has no [Theme] header, the
\* output is the original lines unchanged followed by exactly three appended
\* lines: one blank line, [Theme], and Current=<V>.
C17_AppendAnyValue == JustWritten /\ NoSection => SectionAppended

\* C17 amended: when the non-empty document has no [Theme] header and V is a
\* single line, the output is the original lines unchanged followed by
\* exactly three appended lines: one blank line, [Theme], and Current=<V>.
C17_AppendSection == JustWritten /\ SingleLine(V) /\ NoSection => SectionAppended

\* "[x\nx", which ends without a line feed, received the three lines.
C17_Witness ==
    /\ JustWritten
    /\ raw_content = <<LB, "x", LF, "x">>
    /\ V = <<"y">>
    /\ Lines(file) = << <<LB, "x">>, <<"x">>, <<>>, ThemeHeader, NewLine(V) >>

----------------------------------------------------------------------------
(* C18: case 4, the empty document                                         *)

\* C18 as stated: for the empty input document the output contains only the
\* [Theme] header line and the Current=<V> line.
C18_EmptyInputMinimal ==
    JustWritten /\ raw_content = <<>> /\ SingleLine(V) =>
        Lines(file) = <<ThemeHeader, NewLine(V)>>

----------------------------------------------------------------------------
(* C19: non-interference of extraction                                     *)

\* The header lines and the lines inside [Theme], from line i on, in order.
RECURSIVE SkeletonFrom(_, _)
SkeletonFrom(lines, i) ==
    IF i > Len(lines) THEN <<>>
    ELSE (IF IsHeader(lines[i]) \/ InThemeAt(lines, i - 1)
          THEN <<lines[i]>>
          ELSE <<>>) \o SkeletonFrom(lines, i + 1)

\* What is left of the document when every non-header line outside [Theme]
\* is deleted.  Two documents that differ only in such lines have the same
\* skeleton.
Skeleton(content) == JoinLines(SkeletonFrom(Lines(content), 1), TRUE)

\* The trimmed value of the Current= line.
KeyValue(line) == Trim(Tail(Trim(line)))

\* C19: the result of parse_current_theme depends only on the header lines
\* and the lines inside [Theme]: it is the result for the document with
\* every non-header line outside [Theme] deleted, so two documents that
\* differ only in such lines yield the same result; and a result is always
\* the value of a Current= line inside [Theme], never of one under another
\* section.
C19_NonInterference ==
    /\ cfg_current = parse_current_theme(Skeleton(raw_content))
    /\ cfg_current # None =>
          \E i \in 1..Len(Lines(raw_content)) :
              /\ IsThemeKeyAt(Lines(raw_content), i)
              /\ cfg_current = Some(KeyValue(Lines(raw_content)[i]))

\* A loaded document has " Current= y " outside [Theme] and the name x
\* inside it: x is the result.
C19_Witness ==
    /\ phase = "loaded"
    /\ \E i \in 1..Len(OutsideLines(raw_content)) :
          OutsideLines(raw_content)[i] = <<SP, KEY, SP, "y", SP>>
    /\ KeyLines(raw_content) = <<NewLine(<<"x">>)>>
    /\ cfg_current = Some(<<"x">>)

----------------------------------------------------------------------------
(* C20: first match wins                                                   *)

\* The indices of the Current= lines inside [Theme].
ThemeKeyIndices(lines) == { i \in 1..Len(lines) : IsThemeKeyAt(lines, i) }

\* C20 as stated: the result of parse_current_theme is determined by the
\* first Current= line inside [Theme] alone: it is that line's trimmed value
\* when non-empty and absent when that trimmed value is empty, whatever
\* Current= lines follow.
C20_FirstMatchWins ==
    LET a == Lines(raw_content)
        K == ThemeKeyIndices(a)
    IN  K # {} =>
            LET first == CHOOSE i \in K : \A j \in K : i <= j
            IN  cfg_current = IF KeyValue(a[first]) # <<>>
                              THEN Some(KeyValue(a[first]))
                              ELSE None

----------------------------------------------------------------------------
(* C21: duplicate keys on write                                            *)

\* Lines i < j are in one section: no header lies from i + 1 to j.
SameSection(lines, i, j) == \A n \in (i + 1)..j : ~IsHeader(lines[n])

\* C21 as stated: when a [Theme] section contains several Current= lines,
\* only the first occurrence is replaced by Current=<V> and every later
\* duplicate of the section is copied unchanged.  Stated for the documents
\* whose lines keep their positions: the first [Theme] section holds a key
\* and V is a single line.
C21_ReplacesFirstOnly ==
    JustWritten /\ SingleLine(V) /\ FirstSectionHasKey(Lines(raw_content)) =>
        LET a == Lines(raw_content)
            b == Lines(file)
            K == ThemeKeyIndices(a)
        IN  \A i \in K : \A j \in K :
                i < j /\ SameSection(a, i, j) => b[j] = a[j]

----------------------------------------------------------------------------
(* C29: the cursor is frozen while confirming                              *)

\* C29: in Confirming every key other than a confirm or cancel key (Up,
\* Down, j, k and q among them) leaves cursor and mode unchanged and returns
\* None; so the name carried by ApplyTheme is always the entry that was
\* highlighted when Enter was pressed in Browsing.
C29_FrozenWhileConfirming ==
    [][mode = "Confirming" =>
          /\ Pressed(KeyCodes \ (ConfirmKeys \cup CancelKeys)) =>
                /\ ret' = None
                /\ UNCHANGED <<selected, mode>>
          /\ ReturnedApply' =>
                /\ armed # None
                /\ ret' = Some(ApplyTheme(armed[1]))]_vars

\* Enter on the second entry of three, later a confirm key: ApplyTheme
\* carries the second entry.
C29_Witness ==
    /\ ReturnedApply
    /\ enter_before
    /\ Len(themes) = 3
    /\ armed = Some(themes[2])
    /\ ret = Some(ApplyTheme(themes[2]))
    /\ selected = Some(1)

----------------------------------------------------------------------------
(* C28: the scanner's result                                               *)

\* The listing holds only entries that read_dir yielded without error.
AllEntriesRead == \A i \in 1..Len(root.entries) : root.entries[i].ok

\* discover_themes returned Ok(ths) where ths has exactly one entry per
\* listed directory and none for anything else, ascending by name, and an
\* unreadable metadata.desktop left description and author absent.
ScannedEveryDirectory ==
    /\ IsOk(scan)
    /\ LET ths == scan[2]
           es == root.entries
       IN  /\ \A i \in 1..Len(es) :
                  es[i].is_dir =>
                      Cardinality({ k \in 1..Len(ths) : ths[k].name = es[i].name }) = 1
           /\ \A k \in 1..Len(ths) :
                  \E i \in 1..Len(es) : es[i].is_dir /\ es[i].name = ths[k].name
           /\ \A k \in 1..Len(ths) : \A n \in 1..Len(ths) :
                  k < n => NameRank(ths[k].name) < NameRank(ths[n].name)
           /\ \A i \in 1..Len(es) : \A k \in 1..Len(ths) :
                  es[i].metadata = None /\ ths[k].name = es[i].name =>
                      ths[k].description = None /\ ths[k].author = None

----------------------------------------------------------------------------
(* C22: resolution priority                                                *)

\* The file can be read and its text has a Current= line inside [Theme].
HoldsThemeKey(f) ==
    /\ f.exists
    /\ f.readable
    /\ ThemeKeyIndices(Lines(f.content)) # {}

\* The *.conf files read_dir lists in the drop-in directory that hold the
\* key.
MatchingFragments ==
    { i \in 1..Len(disk.conf_d.entries) :
        /\ disk.conf_d.entries[i].ok
        /\ disk.conf_d.entries[i].name[2] = "conf"
        /\ HoldsThemeKey(disk.conf_d.entries[i].file) }

\* resolve_config_path has returned.
Resolved == resolved # None

\* C22: resolve_config_path returns the legacy path whenever the legacy file
\* exists and contains [Theme] with a Current= key, whatever the drop-in
\* directory holds; otherwise it returns the first *.conf file of the
\* drop-in directory, in ascending name order, whose content contains
\* [Theme] with a Current= key.  A file contains what reading it gives.
C22_ResolutionPriority ==
    Resolved =>
        /\ HoldsThemeKey(disk.legacy) => resolved = Some(SDDM_CONF)
        /\ ~HoldsThemeKey(disk.legacy) =>
              \A i \in MatchingFragments :
                  (\A j \in MatchingFragments :
                      PathRank(disk.conf_d.entries[i].name)
                          <= PathRank(disk.conf_d.entries[j].name))
                  => resolved = Some(Join(SDDM_CONF_D, disk.conf_d.entries[i].name))

\* The legacy file has no key; read_dir listed zz.conf before 10-sddm.conf,
\* both with the key: 10-sddm.conf is returned.
C22_Witness ==
    /\ Resolved
    /\ disk.legacy.exists
    /\ ~HoldsThemeKey(disk.legacy)
    /\ Len(disk.conf_d.entries) = 2
    /\ MatchingFragments = {1, 2}
    /\ disk.conf_d.entries[1].name = <<"zz", "conf">>
    /\ disk.conf_d.entries[2].name = <<"10-sddm", "conf">>
    /\ resolved = Some(Join(SDDM_CONF_D, <<"10-sddm", "conf">>))

----------------------------------------------------------------------------
(* C23: resolution fallback                                                *)

\* Neither the legacy file nor a listed *.conf file holds the key.
NoCandidateMatched == ~HoldsThemeKey(disk.legacy) /\ MatchingFragments = {}

----------------------------------------------------------------------------
(* C24: write escalation condition                                         *)

\* The i-th write attempt of the run went through sudo tee.
Escalated(i) == attempts[i].how = "sudo"

\* C24: sudo tee is tried only after the unprivileged write failed for want
\* of permission, and it is handed the same bytes for the same destination.
\* write_to_path tests only try_direct_write(..).is_ok(), so a direct write
\* that failed for any other reason is escalated as well.
C24_EscalatesOnlyOnPermission ==
    \A i \in 1..Len(attempts) :
        Escalated(i) =>
            /\ i > 1
            /\ attempts[i - 1].how = "direct"
            /\ attempts[i - 1].outcome = "PermissionDenied"
            /\ attempts[i].path = attempts[i - 1].path
            /\ attempts[i].bytes = attempts[i - 1].bytes

----------------------------------------------------------------------------
(* C25: single escalation, terminal failure                                *)

\* The elevated attempt was made and failed.
SudoFailed ==
    /\ attempts # <<>>
    /\ attempts[Len(attempts)].how = "sudo"
    /\ attempts[Len(attempts)].outcome # "ok"

\* C25: a run makes at most one unprivileged attempt, then at most one
\* elevated attempt, the latter only after the former failed; once the
\* elevated attempt has failed the run is over with exit status 1.
C25_SingleEscalation ==
    /\ Len(attempts) <= 2
    /\ Len(attempts) >= 1 => attempts[1].how = "direct"
    /\ Len(attempts) = 2 =>
          attempts[1].outcome # "ok" /\ attempts[2].how = "sudo"
    /\ SudoFailed => pc = "exited" /\ exit_status = Some(1)

\* sudo could not be spawned after a failed direct write, and main exited
\* with status 1.
C25_Witness ==
    /\ Len(attempts) = 2
    /\ attempts[2].outcome = "SpawnFailed"
    /\ exit_status = Some(1)

----------------------------------------------------------------------------
(* C26: an unreadable config is not fatal                                  *)

\* SddmConfig::load ran on a disk whose resolved file exists and cannot be
\* read.
ResolvedUnreadable ==
    /\ resolved # None
    /\ FileAt(disk0, resolved[1]).exists
    /\ ReadToString(FileAt(disk0, resolved[1])) = None

\* C26: when the resolved file exists and cannot be read, load fails and
\* main goes on with the empty config: no current theme, no content, the
\* legacy path as write target; the run does not end at the load step.
C26_UnreadableNonFatal ==
    ResolvedUnreadable =>
        /\ load_failed
        /\ cfg_current = None
        /\ raw_content = <<>>
        /\ cfg_path = Some(SDDM_CONF)
        /\ pc = "exited" => scan # NotScanned

\* The event loop runs although the resolved file could not be read.
C26_Witness ==
    /\ ResolvedUnreadable
    /\ load_failed
    /\ pc = "looping"
    /\ themes # <<>>

----------------------------------------------------------------------------
(* C27: the exit decision drives the write                                 *)

\* The event loop returned the decision a.
Decided(a) == IsOk(loop_result) /\ loop_result[2] = a

\* What holds of write_theme in every state of a run.
WriteFollowsDecision ==
    /\ IsOk(loop_result) =>
          \/ Decided(Quit)
          \/ \E i \in 1..Len(themes) : Decided(ApplyTheme(themes[i]))
    /\ write_call # None =>
          /\ Decided(ApplyTheme(write_call[1].name))
          /\ terminal = "cooked"
          /\ write_call[1].content =
                apply_theme_to_content(raw_content, Spell(write_call[1].name))
    /\ \A i \in 1..Len(attempts) :
          /\ write_call # None
          /\ attempts[i].bytes = write_call[1].content
    /\ write_call = None => attempts = <<>> /\ disk = disk0
    /\ Decided(Quit) => write_call = None

\* C27: the decision the event loop returns is Quit or ApplyTheme(name) for
\* a listed theme name; write_theme is called at most once, only after the
\* loop returned ApplyTheme(name) and the terminal was restored, with that
\* name; after Quit, and in a run that ends without a decision, nothing is
\* written.
C27_ExitDecisionDrivesWrite ==
    [][/\ WriteFollowsDecision'
       /\ loop_result # NotReturned => loop_result' = loop_result
       /\ write_call # None => write_call' = write_call]_vars

\* The loop returned ApplyTheme("maya"), the terminal was restored and the
\* write changed the disk.
C27_Witness ==
    /\ Decided(ApplyTheme("maya"))
    /\ write_call # None
    /\ terminal = "cooked"
    /\ exit_status = Some(0)
    /\ disk # disk0

----------------------------------------------------------------------------
(* C30: no data loss at the write target                                   *)

\* Every line of the text old, the Current= lines inside [Theme] aside, is a
\* line of the text out.
KeepsLines(old, out) ==
    \A i \in 1..Len(Lines(old)) :
        ~IsThemeKeyAt(Lines(old), i) =>
            \E j \in 1..Len(Lines(out)) : Lines(out)[j] = Lines(old)[i]

\* C30: whenever a write succeeded, the lines of the file that stood at the
\* write target when the program started are lines of the bytes written.
\* After a failed load the bytes are built from the empty config and stored
\* at /etc/sddm.conf, whatever that file held.
C30_NoDataLoss ==
    \A k \in 1..Len(attempts) :
        (attempts[k].outcome = "ok" /\ FileAt(disk0, attempts[k].path).exists) =>
            KeepsLines(FileAt(disk0, attempts[k].path).content,
                       attempts[k].bytes)

----------------------------------------------------------------------------
(* C31: last write wins                                                    *)

\* v is a non-empty value without a line feed.
NonEmptyLine(v) == v # <<>> /\ SingleLine(v)

\* write_theme has just stored apply_theme_to_content(raw_content, V1) for a
\* non-empty single-line V1.
WroteLine == JustWritten /\ NonEmptyLine(Last(written))

\* The names a following run can choose.
NextValues == { v2 \in Values : NonEmptyLine(v2) }

\* C31: for the document doc a run loaded and the non-empty single-line V1
\* it wrote, patching the file written with any non-empty single-line V2
\* gives what patching doc with V2 gives.
C31_LastWriteWins ==
    WroteLine =>
        \A v2 \in NextValues :
            apply_theme_to_content(file, v2) =
                apply_theme_to_content(raw_content, v2)

\* Two runs wrote "x" and then "y" to a document without a [Theme] section:
\* the file is what writing "y" alone gives and holds no "Current=x" line.
C31_Witness ==
    /\ JustWritten
    /\ written = << <<"x">>, <<"y">> >>
    /\ cfg_current = Some(<<"x">>)
    /\ file = <<"x", LF, LF>> \o ThemeHeader \o <<LF, KEY, "y", LF>>

----------------------------------------------------------------------------
(* C32: Quit is always reachable                                           *)

\* The handle_key call the event loop makes for an Escape key press.
PressEscape == handle_key("Esc") /\ UNCHANGED <<cfgVars, envVars>>

\* Escape pressed now is handled and returns Quit.
EscapeQuits == ENABLED (PressEscape /\ ret' = Some(Quit))

\* Escape pressed now is handled and returns None, and Escape pressed again
\* returns Quit.
EscapeTwiceQuits == ENABLED (PressEscape /\ ret' = None /\ EscapeQuits')

\* C32: in every state reachable by handle_key calls, one Escape returns
\* Quit when the mode is Browsing, and two Escapes do when it is Confirming,
\* the first returning None; so the event loop, which returns as soon as
\* handle_key returns an action, can be left from every state.
C32_QuitReachable ==
    /\ mode \in {"Browsing", "Confirming"}
    /\ mode = "Browsing" => EscapeQuits
    /\ mode = "Confirming" => ~EscapeQuits /\ EscapeTwiceQuits

\* The dialog was opened and closed with Escape, the cursor moved, and a
\* further Escape returned Quit.
C32_Witness ==
    /\ KeyIn({"Esc"})
    /\ prev_mode = "Browsing"
    /\ ret = Some(Quit)
    /\ enter_before
    /\ selected # None /\ selected[1] > 0
    /\ EscapeQuits

====
